---- MODULE Spec2Model ----
(***************************************************************************)
(* Model of the grid-indexed particle collision engine of src/main.rs.     *)
(*                                                                         *)
(* Numbers.  Positions, velocities, masses, elasticities and the frame     *)
(* delta are f32 in the source, and they are f32 here: a float is kept as  *)
(* the integer whose magnitude is f32::to_bits of the float's magnitude    *)
(* and whose sign is the float's sign.  Zero is 0 (the two zeros of f32    *)
(* compare equal and are not told apart), 1.0 is 1065353216, and the order *)
(* of the integers is the order of the floats.  F32Add, F32Mul, F32Div and *)
(* F32Sqrt round to nearest, ties to even, as the hardware does; F32(k) is *)
(* the float that the literal k/100 denotes (F32(40) is 0.4).  Infinities, *)
(* NaN and subnormals are out of the reach of the program and not          *)
(* modelled.  A cell is the componentwise floor of a position, as          *)
(* Vec2::floor().as_ivec2().                                               *)
(*                                                                         *)
(* Entities are the numbers 1, 2, 3 in spawn order.  Option<Vec2> of       *)
(* BoundsExt::outside is the normal itself, the zero vector being None     *)
(* (the source decides Some/None by normal != Vec2::ZERO).                 *)
(***************************************************************************)
EXTENDS Integers, Sequences, FiniteSets, TLC

VARIABLES
  particles,   \* entity store: entity -> Particle {position, velocity, mass, elasticity}
  lookup,      \* ParticleLookup.particles: cell -> entity
  events,      \* Events<ParticleCollisionEvent> not yet read by handle_collisions
  dt,          \* time.delta_seconds() of the current frame
  pc,          \* "idle": between systems of a frame; "move": discover ran, movement is next;
               \* "call"/"done": the single-call specification of handle_collision
  frameTicks,  \* fixed steps already run in the current frame
  ticks,       \* fixed steps run since startup
  status,      \* "running", or "overflow" once handle_collision recursed without end
  sent,        \* history: the events sent by the latest discover_collisions pass
  clobbered,   \* history: entities whose index entry the latest movement pass overwrote
  before       \* history: the entity store as the latest handler found it

vars == <<particles, lookup, events, dt, pc, frameTicks, ticks, status, sent, clobbered, before>>

----------------------------------------------------------------------------
(* Bounds of the model *)

MaxTicks == 2
MaxDepth == 12

Entities == {1, 2, 3}
NoEntity == 0

----------------------------------------------------------------------------
(* f32 arithmetic *)

TwoTo == <<1, 2, 4, 8, 16, 32, 64, 128, 256, 512, 1024, 2048, 4096, 8192, 16384,
           32768, 65536, 131072, 262144, 524288, 1048576, 2097152, 4194304,
           8388608, 16777216, 33554432, 67108864, 134217728, 268435456,
           536870912, 1073741824>>

Pow2(k) == TwoTo[k + 1]

Abs(n) == IF n < 0 THEN -n ELSE n

Sign(x) == IF x < 0 THEN -1 ELSE 1

\* the number of bits of m, 0 < m < 2^k: counted down from k
RECURSIVE BitLenFrom(_, _)
BitLenFrom(m, k) == IF m >= TwoTo[k] THEN k ELSE BitLenFrom(m, k - 1)

BitLen(m) == BitLenFrom(m, 31)

\* the 24-bit significand of a float, hidden bit included, and the exponent
\* of the significand's last bit: |x| = Mantissa(x) * 2^Exponent(x)
Mantissa(x) == Pow2(23) + (Abs(x) % Pow2(23))
Exponent(x) == (Abs(x) \div Pow2(23)) - 150

\* the float nearest to sign * m * 2^e, ties to even.  When m is longer than
\* 25 bits, a set last bit of m also stands for any non-zero tail below it.
\* Rounding up adds 1 to the bit pattern, which carries into the exponent
\* when the significand overflows.
Pack(sign, m, e) ==
  IF m = 0 THEN 0
  ELSE LET n == BitLen(m)
       IN IF n <= 24
            THEN sign * ((e - (24 - n) + 150) * Pow2(23) + (m * Pow2(24 - n) - Pow2(23)))
            ELSE LET sh == n - 24
                     q == m \div Pow2(sh)
                     r == m % Pow2(sh)
                     half == Pow2(sh - 1)
                     up == r > half \/ (r = half /\ q % 2 = 1)
                 IN sign * ((e + sh + 150) * Pow2(23) + (q - Pow2(23)) + (IF up THEN 1 ELSE 0))

\* m with its last bit set when a non-zero tail was dropped below it
Jam(m, tail) == IF tail # 0 /\ m % 2 = 0 THEN m + 1 ELSE m

\* m shifted right by d bits, the bits shifted out kept as a set last bit
ShiftRightJam(m, d) ==
  IF d = 0 THEN m
  ELSE IF d > 30 THEN 1
  ELSE Jam(m \div Pow2(d), m % Pow2(d))

\* the element of a singleton. Only({e(v) : v \in {x}}) is `let v = x; e(v)':
\* x is evaluated once, whatever the number of places where e reads v
Only(S) == CHOOSE r \in S : TRUE

\* x + y: the significands carry three guard bits
F32Add(x, y) ==
  IF x = 0 THEN y
  ELSE IF y = 0 THEN x
  ELSE LET swap == Abs(x) < Abs(y)
           big == IF swap THEN y ELSE x
           small == IF swap THEN x ELSE y
           e == Exponent(big)
           a == Mantissa(big) * 8
           b == ShiftRightJam(Mantissa(small) * 8, e - Exponent(small))
           s == Sign(big) * a + Sign(small) * b
       IN Pack(Sign(s), Abs(s), e - 3)

F32Sub(x, y) == F32Add(x, -y)

\* x * y: the 48-bit product of the significands, in 12-bit halves
F32Mul(x, y) ==
  IF x = 0 \/ y = 0 THEN 0
  ELSE LET ah == Mantissa(x) \div 4096
           al == Mantissa(x) % 4096
           bh == Mantissa(y) \div 4096
           bl == Mantissa(y) % 4096
           mid == ah * bl + al * bh
           t == al * bl + (mid % 4096) * 4096
           low == t % Pow2(24)
           high == ah * bh + (mid \div 4096) + (t \div Pow2(24))
       IN Pack(Sign(x) * Sign(y),
               Jam(high * 64 + (low \div Pow2(18)), low % Pow2(18)),
               Exponent(x) + Exponent(y) + 18)

\* x / y, y not zero: long division, seven bits of the quotient a step
F32Div(x, y) ==
  IF x = 0 THEN 0
  ELSE LET d == Mantissa(y)
           q0 == Mantissa(x) \div d
           r0 == Mantissa(x) % d
           q1 == (r0 * 128) \div d
           r1 == (r0 * 128) % d
           q2 == (r1 * 128) \div d
           r2 == (r1 * 128) % d
           q3 == (r2 * 128) \div d
           r3 == (r2 * 128) % d
           q4 == (r3 * 128) \div d
           r4 == (r3 * 128) % d
       IN Pack(Sign(x) * Sign(y),
               Jam(q0 * Pow2(28) + q1 * Pow2(21) + q2 * Pow2(14) + q3 * 128 + q4, r4),
               Exponent(x) - Exponent(y) - 28)

\* f32::sqrt, x not negative: digit by digit, two bits of the operand a step
RECURSIVE SqrtLoop(_, _, _, _)
SqrtLoop(m, i, rem, root) ==
  IF i < 0 THEN Jam(root, rem)
  ELSE LET pair == IF i >= 14 THEN (m \div Pow2(2 * (i - 14))) % 4 ELSE 0
           r == rem * 4 + pair
           trial == root * 4 + 1
       IN IF r >= trial THEN SqrtLoop(m, i - 1, r - trial, root * 2 + 1)
          ELSE SqrtLoop(m, i - 1, r, root * 2)

F32Sqrt(x) ==
  IF x = 0 THEN 0
  ELSE LET odd == Exponent(x) % 2 = 1
           m == IF odd THEN 2 * Mantissa(x) ELSE Mantissa(x)
           e == IF odd THEN Exponent(x) - 1 ELSE Exponent(x)
       IN Pack(1, SqrtLoop(m, 26, 0, 0), (e \div 2) - 14)

\* n as f32 (exact below 2^24)
FromInt(n) == Pack(Sign(n), Abs(n), 0)

\* f32::round, as an integer: to the nearest whole number, half away from zero
RoundInt(x) ==
  IF x = 0 THEN 0
  ELSE LET e == Exponent(x)
           m == Mantissa(x)
       IN IF e >= 0 THEN Sign(x) * m * Pow2(e)
          ELSE IF e < -24 THEN 0
          ELSE Sign(x) * ((m \div Pow2(-e))
                          + (IF 2 * (m % Pow2(-e)) >= Pow2(-e) THEN 1 ELSE 0))

\* f32::floor followed by `as i32'
FloorInt(x) ==
  IF x = 0 THEN 0
  ELSE LET e == Exponent(x)
           m == Mantissa(x)
       IN IF e >= 0 THEN Sign(x) * m * Pow2(e)
          ELSE IF e < -24 THEN (IF x < 0 THEN -1 ELSE 0)
          ELSE IF x > 0 THEN m \div Pow2(-e)
          ELSE -((m + Pow2(-e) - 1) \div Pow2(-e))

\* the float of the decimal literal k/100
Scale == 100
Hundred == FromInt(Scale)
F32(k) == F32Div(FromInt(k), Hundred)

One == FromInt(1)
Zero == <<0, 0>>

----------------------------------------------------------------------------
(* glam::Vec2 *)

Vec(kx, ky) == <<F32(kx), F32(ky)>>

\* Vec2 + Vec2, Vec2 - Vec2
Add(u, v) == <<F32Add(u[1], v[1]), F32Add(u[2], v[2])>>
Sub(u, v) == <<F32Sub(u[1], v[1]), F32Sub(u[2], v[2])>>

\* f32 * Vec2 and Vec2 * f32
Times(s, v) == <<F32Mul(s, v[1]), F32Mul(s, v[2])>>

\* Vec2 * Vec2: the componentwise product
Product(u, v) == <<F32Mul(u[1], v[1]), F32Mul(u[2], v[2])>>

\* Vec2 / f32
Over(v, s) == <<F32Div(v[1], s), F32Div(v[2], s)>>

\* Vec2::round
Round(v) == <<FromInt(RoundInt(v[1])), FromInt(RoundInt(v[2]))>>

\* Vec2::floor().as_ivec2()
Floor(p) == <<FloorInt(p[1]), FloorInt(p[2])>>

\* Vec2::normalize: self * self.length().recip()
Normalize(v) ==
  LET length == F32Sqrt(F32Add(F32Mul(v[1], v[1]), F32Mul(v[2], v[2])))
  IN Times(F32Div(One, length), v)

----------------------------------------------------------------------------
(* ParticleLookup::new(40, 20) and BoundsExt::outside *)

Width == 40
Height == 20

Left == F32Div(FromInt(-Width), FromInt(2))
Right == F32Div(FromInt(Width), FromInt(2))
Top == F32Div(FromInt(Height), FromInt(2))
Bottom == F32Div(FromInt(-Height), FromInt(2))

\* the comparisons are not strict: a point on the boundary counts as outside
Outside_Closed(point) ==
  LET nx == IF point[1] <= Left THEN One ELSE IF point[1] >= Right THEN -One ELSE 0
      ny == IF point[2] <= Bottom THEN One ELSE IF point[2] >= Top THEN -One ELSE 0
  IN <<nx, ny>>

Outside(point) ==
  LET nx == IF point[1] < Left THEN One ELSE IF point[1] > Right THEN -One ELSE 0
      ny == IF point[2] < Bottom THEN One ELSE IF point[2] > Top THEN -One ELSE 0
  IN <<nx, ny>>

----------------------------------------------------------------------------
(* ParticleCollisionEvent and Option<ParticleCollisionEvent> *)

World(entity, normal) == [type |-> "World", a |-> entity, b |-> NoEntity, n |-> normal]
Particle(a, b) == [type |-> "Particle", a |-> a, b |-> b, n |-> Zero]
None == [type |-> "None", a |-> NoEntity, b |-> NoEntity, n |-> Zero]

\* the index is looked up before the bounds are tested
check_for_collision_IndexFirst(entity, potential_position, index) ==
  Only({IF potential_point \in DOMAIN index /\ index[potential_point] # entity
          THEN Particle(entity, index[potential_point])
        ELSE IF wall_normal # Zero THEN World(entity, wall_normal)
        ELSE None :
        potential_point \in {Floor(potential_position)},
        wall_normal \in {Outside(potential_position)}})

check_for_collision(entity, potential_position, index) ==
  Only({IF wall_normal # Zero THEN World(entity, wall_normal)
        ELSE IF potential_point \in DOMAIN index
          THEN IF index[potential_point] # entity
                 THEN Particle(entity, index[potential_point])
                 ELSE None
        ELSE None :
        potential_point \in {Floor(potential_position)},
        wall_normal \in {Outside(potential_position)}})

----------------------------------------------------------------------------
(* The velocity formulas, in the source's order of operations *)

\* line 176
calculate_collision(current, other) ==
  Over(Add(Add(Times(F32Mul(current.elasticity, other.mass),
                     Sub(other.velocity, current.velocity)),
               Times(current.mass, current.velocity)),
           Times(other.mass, other.velocity)),
       F32Add(current.mass, other.mass))

\* (v * 100.).round() / 100.
Quantize(v) == Over(Round(Times(Hundred, v)), Hundred)

\* lines 251-252: velocity - (1. + elasticity) * (velocity * normal) * normal.normalize(),
\* where Vec2 * Vec2 is the componentwise product, then quantised
WorldReflect(velocity, normal, elasticity) ==
  Quantize(Sub(velocity,
               Product(Times(F32Add(One, elasticity), Product(velocity, normal)),
                       Normalize(normal))))

----------------------------------------------------------------------------
(* The recursive resolver.  Positions and the index are read-only here, so a
   nested call is determined by the entity store and the event.  Every call
   of handle_collision makes at most one nested call, so the calls form a
   chain; a call whose store and event equal those of a call still on the
   stack repeats that call's descent for ever (stack overflow).  `seen' is
   the set of <<store, event>> of the calls on the stack.  The result is
   [parts, st]: st = "ok" when the call returned, "overflow" when it cannot
   return, "deep" when the chain is longer than MaxDepth. *)

SetVelocity(parts, entity, v) == [parts EXCEPT ![entity].velocity = v]

\* Query::get_many_mut([a, b]) is Ok: both entities exist and they differ
GetManyOk(parts, a, b) == a \in DOMAIN parts /\ b \in DOMAIN parts /\ a # b

\* the second application fetches A alone and stops it when B is gone
SecondApplication_LoneA(parts, a, b) ==
  IF a \notin DOMAIN parts THEN parts
  ELSE IF GetManyOk(parts, a, b)
    THEN SetVelocity(parts, a, Quantize(calculate_collision(parts[a], parts[b])))
    ELSE SetVelocity(parts, a, Zero)

\* the second application is left out
SecondApplication_Skipped(parts, a, b) == parts

\* lines 242-247: the second application, on A alone
SecondApplication(parts, a, b) ==
  IF GetManyOk(parts, a, b)
    THEN SetVelocity(parts, a, Quantize(calculate_collision(parts[a], parts[b])))
    ELSE parts

\* lines 230-233: both new velocities are computed from the old ones
FirstApplication(parts, a, b) ==
  LET new_a_velocity == calculate_collision(parts[a], parts[b])
      new_b_velocity == calculate_collision(parts[b], parts[a])
  IN [parts EXCEPT ![a].velocity = Quantize(new_a_velocity),
                   ![b].velocity = Quantize(new_b_velocity)]

\* lines 204-212: the event resolve_particle would hand to handle_collision
RecheckEvent(parts, entity, index) ==
  IF entity \notin DOMAIN parts THEN None
  ELSE Only({IF particle.velocity # Zero
                    /\ Floor(potential_position) # Floor(particle.position)
               THEN check_for_collision(entity, potential_position, index)
               ELSE None :
             particle \in {parts[entity]},
             potential_position \in {Add(parts[entity].position, parts[entity].velocity)}})

RECURSIVE handle_collision(_, _, _, _, _)
RECURSIVE resolve_particle(_, _, _, _, _)

resolve_particle(entity, parts, index, seen, fuel) ==
  Only({IF collision = None THEN [parts |-> parts, st |-> "ok"]
        ELSE IF <<parts, collision>> \in seen THEN [parts |-> parts, st |-> "overflow"]
        ELSE IF fuel = 0 THEN [parts |-> parts, st |-> "deep"]
        ELSE handle_collision(collision, parts, index, seen, fuel - 1) :
        collision \in {RecheckEvent(parts, entity, index)}})

handle_collision(collision, parts, index, seen, fuel) ==
  IF collision.type = "Particle"
    THEN IF GetManyOk(parts, collision.a, collision.b)
           THEN Only({IF r.st = "ok"
                        THEN [parts |-> SecondApplication(r.parts, collision.a, collision.b),
                              st |-> "ok"]
                        ELSE r :
                      r \in {resolve_particle(collision.b, first, index, onstack, fuel) :
                               first \in {FirstApplication(parts, collision.a, collision.b)},
                               onstack \in {seen \cup {<<parts, collision>>}}}})
           ELSE [parts |-> SecondApplication(parts, collision.a, collision.b), st |-> "ok"]
  ELSE IF collision.type = "World"
    THEN IF collision.a \in DOMAIN parts
           THEN Only({resolve_particle(collision.a, reflected, index, onstack, fuel) :
                      reflected \in {SetVelocity(parts, collision.a,
                                                 WorldReflect(parts[collision.a].velocity,
                                                              collision.n,
                                                              parts[collision.a].elasticity))},
                      onstack \in {seen \cup {<<parts, collision>>}}})
           ELSE [parts |-> parts, st |-> "ok"]
  ELSE [parts |-> parts, st |-> "ok"]

\* handle_collisions: every unread event, in the order it was sent
RECURSIVE HandleAll(_, _, _)
HandleAll(evs, parts, index) ==
  IF evs = <<>> THEN [parts |-> parts, st |-> "ok"]
  ELSE Only({IF r.st = "ok" THEN HandleAll(Tail(evs), r.parts, index) ELSE r :
             r \in {handle_collision(Head(evs), parts, index, {}, MaxDepth)}})

----------------------------------------------------------------------------
(* discover_collisions *)

\* the u64 of hashing a then b with the set's hasher; distinct ordered pairs
\* of the model's entities get distinct fingerprints
PairHash(a, b) == a * (Cardinality(Entities) + 1) + b

\* Particle::GRAVITY
Gravity == <<0, -One>>

\* gravity integrated on the spot: the position is advanced as well
ApplyGravity_Integrate(particle, delta) ==
  [particle EXCEPT !.velocity = Add(particle.velocity, Times(delta, Gravity)),
                   !.position = Add(particle.position,
                                    Add(particle.velocity, Times(delta, Gravity)))]

\* gravity is skipped for a particle at rest
ApplyGravity_SkipResting(particle, delta) ==
  IF particle.velocity = Zero THEN particle
  ELSE [particle EXCEPT !.velocity = Add(particle.velocity, Times(delta, Gravity))]

\* line 143: velocity += GRAVITY * delta
ApplyGravity(particle, delta) ==
  [particle EXCEPT !.velocity = Add(particle.velocity, Times(delta, Gravity))]

\* lines 145-151 for one particle, gravity already applied
DiscoverEvent(entity, particle, index) ==
  Only({IF particle.velocity # Zero /\ Floor(potential_position) # Floor(particle.position)
          THEN check_for_collision(entity, potential_position, index)
          ELSE None :
        potential_position \in {Add(particle.position, particle.velocity)}})

\* the mirror ordering is never looked up
Deduplicated_OneOrdering(collision, handled) ==
  /\ collision.type = "Particle"
  /\ PairHash(collision.a, collision.b) \in handled

\* lines 152-166: TRUE when the pair event is dropped as already handled
Deduplicated(collision, handled) ==
  /\ collision.type = "Particle"
  /\ \/ PairHash(collision.a, collision.b) \in handled
     \/ PairHash(collision.b, collision.a) \in handled

\* line 143 for every particle.  The loop body reads and writes the particle
\* it visits and reads the index, so what it does to one particle does not
\* depend on the order of the iteration
Accelerated(parts, delta) == [a \in DOMAIN parts |-> ApplyGravity(parts[a], delta)]

\* lines 145-151 for every particle
Found(parts, index) == [a \in DOMAIN parts |-> DiscoverEvent(a, parts[a], index)]

\* lines 152-168 over the iteration order: the events that are sent
RECURSIVE DiscoverLoop(_, _, _, _)
DiscoverLoop(order, found, handled, out) ==
  IF order = <<>> THEN out
  ELSE LET collision == found[Head(order)]
       IN IF collision = None \/ Deduplicated(collision, handled)
            THEN DiscoverLoop(Tail(order), found, handled, out)
            ELSE DiscoverLoop(Tail(order), found,
                              IF collision.type = "Particle"
                                THEN handled \cup {PairHash(collision.a, collision.b)}
                                ELSE handled,
                              Append(out, collision))

----------------------------------------------------------------------------
(* handle_movement *)

\* the entry at the old cell is never removed
RemoveOld_Never(index, current_point, entity) == index

\* the guard is inverted: the entry goes only if it is another entity's
RemoveOld_Foreign(index, current_point, entity) ==
  IF current_point \in DOMAIN index /\ index[current_point] # entity
    THEN [c \in (DOMAIN index) \ {current_point} |-> index[c]]
    ELSE index

\* no guard: the entry at the old cell goes whoever it points at
RemoveOld_Unguarded(index, current_point, entity) ==
  [c \in (DOMAIN index) \ {current_point} |-> index[c]]

\* lines 282-284: the entry at the old cell goes only if it is this entity's
RemoveOld(index, current_point, entity) ==
  IF current_point \in DOMAIN index /\ index[current_point] = entity
    THEN [c \in (DOMAIN index) \ {current_point} |-> index[c]]
    ELSE index

\* HashMap::insert
Insert(index, point, entity) ==
  [c \in (DOMAIN index) \cup {point} |-> IF c = point THEN entity ELSE index[c]]

\* the index is refreshed on every pass, cell change or not
MoveIndex_Always(index, current_point, new_point, entity) ==
  Insert(RemoveOld(index, current_point, entity), new_point, entity)

\* lines 281-286 for one particle
MoveIndex(index, current_point, new_point, entity) ==
  IF current_point # new_point
    THEN Insert(RemoveOld(index, current_point, entity), new_point, entity)
    ELSE index

\* lines 276-278 for one particle
Step(particle) ==
  LET new_position == Add(particle.position, particle.velocity)
  IN [current_point |-> Floor(particle.position),
      new_position |-> new_position,
      new_point |-> Floor(new_position)]

\* the step of every particle: it reads the particle alone
Steps(parts) == [a \in DOMAIN parts |-> Step(parts[a])]

\* line 287 for every particle
Committed(parts, steps) ==
  [a \in DOMAIN parts |-> [parts[a] EXCEPT !.position = steps[a].new_position]]

\* lines 281-286 over the iteration order: the index, and the entities whose
\* entry an insert overwrote
RECURSIVE MovementLoop(_, _, _, _)
MovementLoop(order, steps, index, hit) ==
  IF order = <<>> THEN [index |-> index, hit |-> hit]
  ELSE LET entity == Head(order)
           current_point == steps[entity].current_point
           new_point == steps[entity].new_point
           taken == /\ current_point # new_point
                    /\ new_point \in DOMAIN index
                    /\ index[new_point] # entity
       IN MovementLoop(Tail(order), steps,
                       MoveIndex(index, current_point, new_point, entity),
                       IF taken THEN hit \cup {index[new_point]} ELSE hit)

----------------------------------------------------------------------------
(* The program: setup, then frames.  A frame runs handle_collisions and then
   the fixed-step set (discover_collisions, handle_movement) as many times as
   FixedTimestep::step(0.25) finds whole steps in its accumulator. *)

\* Query::iter_mut promises no order: every order of the stored entities
Orders(S) == {o \in [1..Cardinality(S) -> S] : \A i, j \in 1..Cardinality(S) : o[i] = o[j] => i = j}

\* FixedTimestep::step(0.25)
FixedStep == F32(25)

\* the frame deltas of the model: 0.02 s and 0.30 s
DtSet == {F32(2), F32(30)}
StartXs == {-100, 100, 200, 1950}
StartVXs == {-100, 0, 100}
Elasticities == {40, 100}

NewParticle(x, vx, elasticity) ==
  [position |-> Vec(x, 0), velocity |-> Vec(vx, 0), mass |-> One,
   elasticity |-> F32(elasticity)]

\* setup spawns the particles at increasing x, each in a cell of its own
Setups ==
  UNION {{[i \in 1..n |-> NewParticle(xs[i], vxs[i], e)] :
            xs \in {f \in [1..n -> StartXs] :
                      \A i \in 1..(n - 1) : FloorInt(F32(f[i])) < FloorInt(F32(f[i + 1]))},
            vxs \in [1..n -> StartVXs],
            e \in Elasticities} : n \in {2, 3}}

EmptyLookup == [c \in {} |-> NoEntity]

Init ==
  /\ particles \in Setups
  /\ lookup = EmptyLookup
  /\ events = <<>>
  /\ dt \in DtSet
  /\ pc = "idle"
  /\ frameTicks = 0
  /\ ticks = 0
  /\ status = "running"
  /\ sent = <<>>
  /\ clobbered = {}
  /\ before = particles

\* the accumulator of FixedTimestep holds less than one step when a frame
\* begins and gains dt: a further step is due only if the steps already run in
\* the frame fall short of dt, and the frame cannot end while a whole step is
\* still owed
StepDue == F32Mul(FromInt(frameTicks), FixedStep) < dt
StepOwed == F32Mul(FromInt(frameTicks + 1), FixedStep) <= dt

\* a new frame: handle_collisions reads every event sent since it last ran
HandleCollisions ==
  /\ pc = "idle"
  /\ status = "running"
  /\ ~StepOwed
  /\ LET r == HandleAll(events, particles, lookup)
     IN /\ particles' = (IF r.st = "ok" THEN r.parts ELSE particles)
        /\ status' = (IF r.st = "ok" THEN status ELSE r.st)
  /\ events' = <<>>
  /\ dt' \in DtSet
  /\ frameTicks' = 0
  /\ before' = particles
  /\ UNCHANGED <<lookup, pc, ticks, sent, clobbered>>

DiscoverCollisions ==
  /\ pc = "idle"
  /\ status = "running"
  /\ ticks < MaxTicks
  /\ StepDue
  /\ LET parts == Accelerated(particles, dt)
         found == Found(parts, lookup)
     IN /\ particles' = parts
        /\ \E order \in Orders(DOMAIN particles) :
             LET out == DiscoverLoop(order, found, {}, <<>>)
             IN /\ events' = events \o out
                /\ sent' = out
  /\ pc' = "move"
  /\ before' = particles
  /\ UNCHANGED <<lookup, dt, frameTicks, ticks, status, clobbered>>

HandleMovement ==
  /\ pc = "move"
  /\ LET steps == Steps(particles)
     IN /\ particles' = Committed(particles, steps)
        /\ \E order \in Orders(DOMAIN particles) :
             LET r == MovementLoop(order, steps, lookup, {})
             IN /\ lookup' = r.index
                /\ clobbered' = r.hit
  /\ pc' = "idle"
  /\ frameTicks' = frameTicks + 1
  /\ ticks' = ticks + 1
  /\ before' = particles
  /\ UNCHANGED <<events, dt, status, sent>>

Next == HandleCollisions \/ DiscoverCollisions \/ HandleMovement

Spec == Init /\ [][Next]_vars

\* the resolver's chain never outgrows the model's depth bound
DepthCovered == status # "deep"

----------------------------------------------------------------------------
(* Properties of the program *)

Stored == DOMAIN particles
Cell(entity) == Floor(particles[entity].position)

\* a tick has completed: handle_movement has run at least once and returned
TickCompleted == pc = "idle" /\ ticks > 0

\* C1: after any tick completes, no two distinct particles have the same
\* floored position (no two particles occupy one cell)
C1_NoOverlap ==
  TickCompleted => \A a, b \in Stored : a # b => Cell(a) # Cell(b)

\* C2: after any tick, every particle's position is inside the world bounds
C2_InBounds ==
  TickCompleted => \A a \in Stored : Outside(particles[a].position) = Zero

\* C3: whenever handle_movement moves a particle into a new cell, the index
\* does not map that cell to a different particle (insert never overwrites
\* another particle's entry)
C3_DestinationFree == clobbered = {}

\* the Particle events of the latest discovery pass whose pair is {a, b}
PairEvents(a, b) ==
  {i \in 1..Len(sent) : sent[i].type = "Particle" /\ {sent[i].a, sent[i].b} = {a, b}}

\* in the pass just run, a was predicted into b's indexed cell and b into a's
Mutual(a, b) ==
  /\ DiscoverEvent(a, particles[a], lookup) = Particle(a, b)
  /\ DiscoverEvent(b, particles[b], lookup) = Particle(b, a)

\* C4: one discovery pass emits at most one Particle event per unordered
\* pair, and exactly one when each of the two is predicted into the other's
\* indexed cell
C4_Deduplication ==
  pc = "move" =>
    \A a, b \in Stored : a # b =>
      /\ Cardinality(PairEvents(a, b)) <= 1
      /\ Mutual(a, b) => Cardinality(PairEvents(a, b)) = 1

C4_Witness ==
  /\ pc = "move"
  /\ \E a, b \in Stored : a # b /\ Mutual(a, b) /\ Cardinality(PairEvents(a, b)) = 1

\* the head-on scenario, after the discovery pass of its first tick: unit
\* masses, elasticity 0.4, A at x = -1 moving right and B at x = 1 moving
\* left at speed 1, both predicted into one cell that the index leaves empty
HeadOn ==
  /\ pc = "move"
  /\ ticks = 0
  /\ Stored = {1, 2}
  /\ before[1] = NewParticle(-100, 100, 40)
  /\ before[2] = NewParticle(100, -100, 40)
  /\ Floor(Add(particles[1].position, particles[1].velocity))
       = Floor(Add(particles[2].position, particles[2].velocity))
  /\ Floor(Add(particles[1].position, particles[1].velocity)) \notin DOMAIN lookup

\* C5: the discovery pass of the head-on scenario emits exactly one event
C5_HeadOnOneEvent == HeadOn => Len(sent) = 1

\* C6: handle_collision returns after finitely many recursive resolutions
C6_CascadeTerminates == status # "overflow"

\* C7: at the end of a handle_movement pass, a cell that the index maps to a
\* particle is the cell of that particle's position
C7_IndexSound ==
  pc = "idle" => \A c \in DOMAIN lookup : lookup[c] \in Stored /\ Cell(lookup[c]) = c

C7_Witness ==
  /\ pc = "idle"
  /\ clobbered # {}
  /\ \E c \in DOMAIN lookup : Cell(lookup[c]) = c /\ c # Floor(before[lookup[c]].position)

----------------------------------------------------------------------------
(* One call of handle_collision on its own: the store, the index and the
   event are drawn from small sets, stale events and corner normals included. *)

CallVelocities == {Vec(0, 0), Vec(100, 0), Vec(-100, 0), Vec(100, -100), Vec(1, 0)}
CallMasses == {FromInt(1), FromInt(2)}
CallElasticities == {F32(0), F32(50), F32(100)}
CallNormals == {<<One, 0>>, <<-One, 0>>, <<0, One>>, <<0, -One>>,
                <<One, One>>, <<One, -One>>, <<-One, One>>, <<-One, -One>>}

CallParticle(x, v, m, e) ==
  [position |-> Vec(x, 0), velocity |-> v, mass |-> m, elasticity |-> e]

\* entity 1 in cell 0 and entity 2 in cell 1 vary; entity 3 rests in cell 2
CallFull ==
  {(1 :> CallParticle(0, v1, m1, e1)) @@ (2 :> CallParticle(150, v2, m2, e2))
     @@ (3 :> CallParticle(250, Zero, One, F32(50))) :
     v1 \in CallVelocities, v2 \in CallVelocities,
     m1 \in CallMasses, m2 \in CallMasses,
     e1 \in CallElasticities, e2 \in CallElasticities}

Restrict(f, S) == [x \in S |-> f[x]]

\* the entities still stored: the others were despawned
CallStores == {Restrict(f, S) : f \in CallFull, S \in {{1, 2, 3}, {1, 3}, {2, 3}}}

\* the index is empty, or holds every stored particle at its cell
IndexOf(parts) ==
  [c \in {Floor(parts[a].position) : a \in DOMAIN parts} |->
     CHOOSE a \in DOMAIN parts : Floor(parts[a].position) = c]

CallEvents ==
  {Particle(1, 2), Particle(2, 1)} \cup {World(1, n) : n \in CallNormals}

CallInit ==
  /\ particles \in CallStores
  /\ lookup \in {EmptyLookup, IndexOf(particles)}
  /\ \E collision \in CallEvents : events = <<collision>>
  /\ dt = 0
  /\ pc = "call"
  /\ frameTicks = 0
  /\ ticks = 0
  /\ status = "running"
  /\ sent = <<>>
  /\ clobbered = {}
  /\ before = particles

CallHandleCollision ==
  /\ pc = "call"
  /\ LET r == handle_collision(Head(events), particles, lookup, {}, MaxDepth)
     IN /\ particles' = (IF r.st = "ok" THEN r.parts ELSE particles)
        /\ status' = (IF r.st = "ok" THEN status ELSE r.st)
  /\ pc' = "done"
  /\ before' = particles
  /\ UNCHANGED <<lookup, events, dt, frameTicks, ticks, sent, clobbered>>

CallNext == CallHandleCollision

SpecCall == CallInit /\ [][CallNext]_vars

\* the event of the call
Called == Head(events)

\* the whole number of hundredths nearest to a float
Hundredths(x) == RoundInt(F32Mul(x, Hundred))

\* twice the combined kinetic energy, in squared hundredths, of the decimal
\* velocities that the floats stand for
Energy2(parts) ==
  LET RECURSIVE Sum(_)
      Sum(S) == IF S = {} THEN 0
                ELSE LET a == CHOOSE x \in S : TRUE
                         vx == Hundredths(parts[a].velocity[1])
                         vy == Hundredths(parts[a].velocity[2])
                     IN RoundInt(parts[a].mass) * (vx * vx + vy * vy) + Sum(S \ {a})
  IN Sum(DOMAIN parts)

\* a Particle(A,B) event on two stored particles was resolved and B's
\* re-check found nothing
ResolvedPairNoCascade ==
  /\ pc = "done"
  /\ status = "running"
  /\ Called.type = "Particle"
  /\ GetManyOk(before, Called.a, Called.b)
  /\ RecheckEvent(FirstApplication(before, Called.a, Called.b), Called.b, lookup) = None

\* C8: resolving Particle(A,B) without cascade never raises the combined
\* kinetic energy
C8_EnergyBound == ResolvedPairNoCascade => Energy2(particles) <= Energy2(before)

\* velocity - (1 + elasticity) * (velocity dot normal) * normalize(normal), quantised
DotReflect(velocity, normal, elasticity) ==
  LET dot == F32Add(F32Mul(velocity[1], normal[1]), F32Mul(velocity[2], normal[2]))
  IN Quantize(Sub(velocity,
                  Times(F32Mul(F32Add(One, elasticity), dot), Normalize(normal))))

\* a World event on a stored particle was resolved and the re-check of the
\* reflected velocity found nothing
ResolvedWorldNoCascade ==
  /\ pc = "done"
  /\ status = "running"
  /\ Called.type = "World"
  /\ Called.a \in DOMAIN before
  /\ RecheckEvent(SetVelocity(before, Called.a,
                              WorldReflect(before[Called.a].velocity, Called.n,
                                           before[Called.a].elasticity)),
                  Called.a, lookup) = None

\* C9: resolving World(entity, normal) sets the velocity to
\* velocity - (1 + elasticity) * (velocity dot normal) * normalize(normal),
\* rounded to 2 decimals, for axis-aligned and diagonal normals alike
C9_WallReflection ==
  ResolvedWorldNoCascade =>
    particles[Called.a].velocity
      = DotReflect(before[Called.a].velocity, Called.n, before[Called.a].elasticity)

\* the event names a particle that is no longer stored
Stale(collision, parts) ==
  \/ collision.type = "Particle"
     /\ (collision.a \notin DOMAIN parts \/ collision.b \notin DOMAIN parts)
  \/ collision.type = "World" /\ collision.a \notin DOMAIN parts

\* C10: handle_collision on an event that names a missing particle returns
\* and leaves every velocity and position unchanged, the survivor's included
C10_StaleSkipped ==
  (pc = "done" /\ Stale(Called, before)) => (status = "running" /\ particles = before)

\* the survivor of a stale pair moves, and a resolution against its partner's
\* last state would have changed its velocity
C10_Witness ==
  /\ pc = "done"
  /\ Called = Particle(1, 2)
  /\ DOMAIN before = {1, 3}
  /\ before[1].velocity # Zero
  /\ particles = before

----------------------------------------------------------------------------
(* Event lifecycle, frame conditions, gravity and the index over the program *)

\* C11: every event of a discovery pass is consumed by handle_collisions in
\* the tick that created it, before that tick's handle_movement commits the
\* positions: when handle_movement runs, no event is still unread
C11_ConsumedBeforeMovement ==
  [][(pc = "move" /\ pc' = "idle") => events = <<>>]_vars

SameBut(field(_), parts, parts2) ==
  /\ DOMAIN parts2 = DOMAIN parts
  /\ \A a \in DOMAIN parts :
       /\ field(parts2[a]) = field(parts[a])
       /\ parts2[a].mass = parts[a].mass
       /\ parts2[a].elasticity = parts[a].elasticity

PositionOf(particle) == particle.position
VelocityOf(particle) == particle.velocity

\* C12: handle_collisions (with every recursive resolution) and
\* discover_collisions leave the index and every position as they were, and
\* handle_movement leaves every velocity as it was
C12_FrameConditions ==
  [][/\ pc = "idle" => (lookup' = lookup /\ SameBut(PositionOf, particles, particles'))
     /\ pc = "move" => SameBut(VelocityOf, particles, particles')]_vars

\* a frame's handle_collisions has just changed velocities and no position
C12_Witness ==
  /\ pc = "idle"
  /\ frameTicks = 0
  /\ ticks > 0
  /\ particles # before
  /\ SameBut(PositionOf, before, particles)
  /\ lookup # EmptyLookup

\* C16: every discovery pass changes every particle's velocity by exactly
\* GRAVITY * dt, once: x unchanged, y lowered by dt, whether the particle was
\* at rest, sent an event, or had its pair event dropped as a duplicate
C16_GravityEveryPass ==
  pc = "move" =>
    \A a \in Stored :
      particles[a].velocity
        = <<before[a].velocity[1], F32Sub(before[a].velocity[2], dt)>>

\* a pass in which b's mirror event Particle(b, a) was dropped as a duplicate
\* and b got its gravity all the same
C16_Witness ==
  /\ pc = "move"
  /\ dt > 0
  /\ \E a, b \in Stored :
       /\ a # b
       /\ Mutual(a, b)
       /\ \E i \in 1..Len(sent) : sent[i] = Particle(a, b)
       /\ \A i \in 1..Len(sent) : sent[i] # Particle(b, a)
       /\ particles[b].velocity[2] = F32Sub(before[b].velocity[2], dt)
       /\ particles[b].velocity[2] # before[b].velocity[2]

\* the cells the index maps to the entity
EntriesOf(entity) == {c \in DOMAIN lookup : lookup[c] = entity}

\* C18: each particle is the value of at most one cell of the index
C18_OneCellPerParticle ==
  \A a \in Stored : Cardinality(EntriesOf(a)) <= 1

\* an indexed particle has just changed cell again: the entry went with it
C18_Witness ==
  /\ pc = "idle"
  /\ ticks >= 2
  /\ \E a \in Stored :
       /\ Floor(before[a].position) # Cell(a)
       /\ EntriesOf(a) = {Cell(a)}
       /\ Cardinality(DOMAIN lookup) = Cardinality(Stored)

\* the occupant named by every Particle event of the latest pass is indexed
SentOccupantsIndexed ==
  pc = "move" =>
    \A i \in 1..Len(sent) :
      sent[i].type = "Particle" =>
        /\ EntriesOf(sent[i].b) # {}
        /\ lookup[Floor(Add(particles[sent[i].a].position,
                            particles[sent[i].a].velocity))] = sent[i].b

\* an entry is new or changed only because handle_movement took its particle
\* from another cell into that cell
EnteredByOwnCellChange ==
  \A c \in DOMAIN lookup' :
    (c \notin DOMAIN lookup \/ lookup[c] # lookup'[c]) =>
      /\ pc = "move"
      /\ Floor(particles[lookup'[c]].position) # c
      /\ Floor(particles'[lookup'[c]].position) = c

\* C19: the index starts empty, a particle enters it only by its own cell
\* change in handle_movement, and a discovery pass names as occupant only a
\* particle that the index holds
C19_OnlyIndexedNamed ==
  /\ [](ticks = 0 => lookup = EmptyLookup)
  /\ []SentOccupantsIndexed
  /\ [][EnteredByOwnCellChange]_vars

\* a is predicted into the cell where b is, b's entry was overwritten, and
\* the pass sent no event that names b as occupant
C19_Witness ==
  /\ pc = "move"
  /\ \E a, b \in Stored :
       /\ a # b
       /\ particles[a].velocity # Zero
       /\ Floor(Add(particles[a].position, particles[a].velocity)) = Cell(b)
       /\ Cell(a) # Cell(b)
       /\ EntriesOf(b) = {}
       /\ \A i \in 1..Len(sent) : ~(sent[i].type = "Particle" /\ sent[i].b = b)

----------------------------------------------------------------------------
(* The two applications of the pair resolution, over single calls *)

\* a Particle(A,B) event on two stored particles was resolved and returned
ResolvedPair ==
  /\ pc = "done"
  /\ status = "running"
  /\ Called.type = "Particle"
  /\ GetManyOk(before, Called.a, Called.b)

\* the store after the first application
FirstPass == FirstApplication(before, Called.a, Called.b)

\* the store when B's recursive re-check has returned
AfterCascade ==
  resolve_particle(Called.b, FirstPass, lookup, {<<before, Called>>}, MaxDepth).parts

\* C14 as stated: A's final velocity is the rounded formula applied to A's
\* first-pass velocity and B's state after B's cascade, and nothing else
\* changes after that
C14_SecondFromFirstPass ==
  ResolvedPair =>
    particles = SetVelocity(AfterCascade, Called.a,
                            Quantize(calculate_collision(FirstPass[Called.a],
                                                         AfterCascade[Called.b])))

\* C14: A's final velocity is the rounded formula applied to A's and B's
\* states as B's cascade left them (A's first-pass velocity unless the cascade
\* itself resolved A again), and the store is otherwise the one the cascade
\* left: A is not re-checked
C14_SecondFromCascade ==
  ResolvedPair =>
    particles = SetVelocity(AfterCascade, Called.a,
                            Quantize(calculate_collision(AfterCascade[Called.a],
                                                         AfterCascade[Called.b])))

\* B's cascade changed B, the second application changed A, and A is left
\* with a velocity whose re-check would find a collision
C14_Witness ==
  /\ ResolvedPair
  /\ AfterCascade[Called.b] # FirstPass[Called.b]
  /\ particles[Called.a].velocity # FirstPass[Called.a].velocity
  /\ RecheckEvent(particles, Called.a, lookup) # None

----------------------------------------------------------------------------
(* The stale-entry guard, over the movement passes of the program.  Every
   particle is visited once per pass, so whatever the order: a cell that
   particles enter ends mapped to one of them; a cell that nobody enters
   loses its entry exactly when the entry's own particle leaves it. *)

\* the particles a movement step takes out of one cell into another
Movers == {a \in Stored : Floor(particles[a].position) # Floor(particles'[a].position)}
Entering(c) == {a \in Movers : Floor(particles'[a].position) = c}
Leaving(c) == {a \in Movers : Floor(particles[a].position) = c}

\* C15: when a particle changes cell, the entry at its old cell is removed if
\* and only if it points at this particle, an entry there that points at a
\* different particle is left in place, and the new cell is mapped to the
\* particle that moved in
C15_StaleEntryGuard ==
  [][pc = "move" =>
       /\ DOMAIN lookup' \subseteq (DOMAIN lookup \cup {Floor(particles'[a].position) : a \in Movers})
       /\ \A c \in DOMAIN lookup \cup {Floor(particles'[a].position) : a \in Movers} :
            IF Entering(c) # {}
              THEN c \in DOMAIN lookup' /\ lookup'[c] \in Entering(c)
              ELSE IF c \in DOMAIN lookup /\ lookup[c] \notin Leaving(c)
                THEN c \in DOMAIN lookup' /\ lookup'[c] = lookup[c]
                ELSE c \notin DOMAIN lookup']_vars

\* a particle has left a cell whose entry points at another particle that
\* stayed there; the entry is still in place and the leaver is indexed at its
\* new cell
C15_Witness ==
  /\ pc = "idle"
  /\ before # particles
  /\ \E a, b \in Stored :
       /\ a # b
       /\ Floor(before[a].position) # Cell(a)
       /\ Floor(before[b].position) = Floor(before[a].position)
       /\ Cell(b) = Floor(before[b].position)
       /\ Cell(b) \in DOMAIN lookup
       /\ lookup[Cell(b)] = b
       /\ Cell(a) \in DOMAIN lookup
       /\ lookup[Cell(a)] = a
       /\ \A c \in Stored : Cell(c) = Cell(b) => c = b

----------------------------------------------------------------------------
(* One discovery pass on its own: a probe and an occupant drawn near the
   walls, the corners and each other, the index empty or holding both. *)

ProbeXs == {-1950, 50, 1900, 1950}
ProbeYs == {-950, -50, 0, 900, 950}
ProbeVelocities == {Vec(0, 0), Vec(0, 2), Vec(10, 2), Vec(100, 2), Vec(100, 102),
                    Vec(-100, -100), Vec(-100, 102), Vec(100, -100)}
OccupantPositions == {Vec(150, 0), Vec(2000, 0), Vec(2050, -50)}
OccupantVelocities == {Vec(0, 2), Vec(-100, 2)}

DetectParticle(position, velocity) ==
  [position |-> position, velocity |-> velocity, mass |-> One, elasticity |-> F32(40)]

DetectStores ==
  {(1 :> DetectParticle(Vec(x, y), v)) @@ (2 :> DetectParticle(q, w)) :
     x \in ProbeXs, y \in ProbeYs, v \in ProbeVelocities,
     q \in OccupantPositions, w \in OccupantVelocities}

DetectInit ==
  /\ particles \in DetectStores
  /\ lookup \in {EmptyLookup, IndexOf(particles)}
  /\ events = <<>>
  /\ dt \in DtSet
  /\ pc = "idle"
  /\ frameTicks = 0
  /\ ticks = 0
  /\ status = "running"
  /\ sent = <<>>
  /\ clobbered = {}
  /\ before = particles

DetectNext == DiscoverCollisions

SpecDetect == DetectInit /\ [][DetectNext]_vars

\* the position the pass predicts for the entity, from its velocity after gravity
Predicted(a) == Add(particles[a].position, particles[a].velocity)

\* the entity moves and its predicted cell is not its current cell
Crossing(a) == particles[a].velocity # Zero /\ Floor(Predicted(a)) # Cell(a)

\* the index maps the predicted cell of a to another particle
OccupiedByOther(a) ==
  /\ Floor(Predicted(a)) \in DOMAIN lookup
  /\ lookup[Floor(Predicted(a))] # a

SentBy(a) == {i \in 1..Len(sent) : sent[i].a = a}
SentPair(a, b) == \E i \in 1..Len(sent) : sent[i] = Particle(a, b)

\* C13: a moving particle whose predicted cell differs from its cell yields
\* World(entity, normal) if the predicted position is outside the bounds
\* (occupied cell or not), otherwise Particle(entity, other) iff the index maps
\* the predicted cell to another particle, otherwise nothing; a particle that
\* stays in its cell or has zero velocity yields nothing; no event pairs a
\* particle with itself
C13_DetectionRule ==
  pc = "move" =>
    /\ \A a \in Stored :
         IF ~Crossing(a) THEN SentBy(a) = {}
         ELSE IF Outside(Predicted(a)) # Zero
           THEN \E i \in 1..Len(sent) :
                  SentBy(a) = {i} /\ sent[i] = World(a, Outside(Predicted(a)))
         ELSE IF OccupiedByOther(a)
           THEN LET b == lookup[Floor(Predicted(a))]
                IN \/ \E i \in 1..Len(sent) : SentBy(a) = {i} /\ sent[i] = Particle(a, b)
                   \/ SentBy(a) = {} /\ SentPair(b, a)
         ELSE SentBy(a) = {}
    /\ \A i \in 1..Len(sent) :
         sent[i].type \in {"World", "Particle"} /\ sent[i].a # sent[i].b

\* a is predicted out of bounds into a cell the index maps to b, and the
\* pass sent the World event for a
C13_Witness ==
  /\ pc = "move"
  /\ \E a, b \in Stored :
       /\ a # b
       /\ Crossing(a)
       /\ Outside(Predicted(a)) # Zero
       /\ Floor(Predicted(a)) \in DOMAIN lookup
       /\ lookup[Floor(Predicted(a))] = b
       /\ \E i \in 1..Len(sent) : sent[i] = World(a, Outside(Predicted(a)))

\* the points the pass looks at: every position and every predicted position
Points == {particles[a].position : a \in Stored} \cup {Predicted(a) : a \in Stored}

\* C17: outside(point) is None exactly on the closed rectangle
\* [left,right] x [bottom,top]; otherwise the normal's x is +1 left of the
\* rectangle, -1 right of it, else 0, and its y is +1 below, -1 above, else 0,
\* so a point outside on both axes gets a normal with both components non-zero
C17_OutsideNormal ==
  \A point \in Points :
    LET normal == Outside(point)
        inX == Left <= point[1] /\ point[1] <= Right
        inY == Bottom <= point[2] /\ point[2] <= Top
    IN /\ normal = Zero <=> (inX /\ inY)
       /\ normal[1] \in {-One, 0, One} /\ normal[2] \in {-One, 0, One}
       /\ normal[1] = One <=> point[1] < Left
       /\ normal[1] = -One <=> point[1] > Right
       /\ normal[2] = One <=> point[2] < Bottom
       /\ normal[2] = -One <=> point[2] > Top
       /\ (~inX /\ ~inY) => (normal[1] # 0 /\ normal[2] # 0)

\* the pass sent a World event with a diagonal normal, while a particle that
\* sits on the right boundary itself counts as inside
C17_Witness ==
  /\ pc = "move"
  /\ \E i \in 1..Len(sent) :
       sent[i].type = "World" /\ sent[i].n[1] # 0 /\ sent[i].n[2] # 0
  /\ \E b \in Stored : particles[b].position[1] = Right /\ Outside(particles[b].position) = Zero

====
